---------------------------- MODULE Spec2Model ----------------------------
(***************************************************************************)
(* The admission-control engine of the bot: src/utils/rateLimiter.js.      *)
(*                                                                         *)
(* Time is Date.now() in milliseconds, counted from the instant the        *)
(* limiter is constructed.  A retryAfter value is held in thousandths of a *)
(* second, so that tempBanDuration / 1000 is represented exactly.          *)
(* userData.violations is an IEEE-754 double; it is held as a pair (t, e)  *)
(* standing for the exact value (t * D + e) * 2^-55, where D * 2^-55 is    *)
(* the double nearest to 0.1.                                              *)
(***************************************************************************)
EXTENDS Integers, Sequences, FiniteSets, TLC

VARIABLES userLimits, globalLimits, tempBans, premiumUsers, config,
          clock, advances, ops, admitted, clearedAt, hist, last, inbound

vars == <<userLimits, globalLimits, tempBans, premiumUsers, config,
          clock, advances, ops, admitted, clearedAt, hist, last, inbound>>

(***************************************************************************)
(* Bounds of the model.                                                    *)
(***************************************************************************)
Callers == {"u1", "u2"}
PremiumLists == {{}, {"u2"}}
Deltas == {1, 59999, 3599999}
MaxAdvances == 2
MaxOps == 5
MaxSteps == 7
MaxBurst == 32
MaxBurstAdvances == 1
BurstCallers == {"u2"}
MaxRetryOps == 7
MaxStatsOps == 5
MaxStatsAdvances == 1
RetryCallers == {"u1"}
BanDurations == {500, 1500, 60000}
MaxInbound == 2
MaxInboundAdvances == 1
InboundDeltas == {60000}
TierCallers == {"u2"}
TierDeltas == {60000, 3420000}
MaxTierOps == 6
MaxTierAdvances == 4

(***************************************************************************)
(* Configuration (constructor).  Every quota is read from the environment  *)
(* and falls back to a default; SmallConfig is a deployment with small     *)
(* quotas, DefaultConfig the one with no environment variable set.         *)
(***************************************************************************)
SmallConfig ==
    [userRequestsPerMinute |-> 1, userRequestsPerHour |-> 2,
     globalRequestsPerMinute |-> 2, globalRequestsPerHour |-> 3,
     premiumUserRequestsPerMinute |-> 2, premiumUserRequestsPerHour |-> 3,
     cooldownPeriod |-> 60000, tempBanDuration |-> 60000]

DefaultConfig ==
    [userRequestsPerMinute |-> 10, userRequestsPerHour |-> 50,
     globalRequestsPerMinute |-> 100, globalRequestsPerHour |-> 1000,
     premiumUserRequestsPerMinute |-> 30, premiumUserRequestsPerHour |-> 200,
     cooldownPeriod |-> 60000, tempBanDuration |-> 300000]

MinuteMs == 60 * 1000
HourMs == 60 * 60 * 1000
BanThreshold == 3

(***************************************************************************)
(* Map and array helpers.                                                  *)
(***************************************************************************)
EmptyMap == [x \in {} |-> 0]
MapSet(m, k, v) == [x \in (DOMAIN m) \cup {k} |-> IF x = k THEN v ELSE m[x]]
MapDelete(m, k) == [x \in (DOMAIN m) \ {k} |-> m[x]]

Within(requests, now, window) ==
    SelectSeq(requests, LAMBDA time : now - time < window)

AfterInclusive(requests, horizon) ==
    SelectSeq(requests, LAMBDA time : time >= horizon)

AfterShiftOnce(requests, horizon) ==
    IF requests # <<>> /\ requests[1] <= horizon THEN Tail(requests) ELSE requests

After(requests, horizon) ==
    SelectSeq(requests, LAMBDA time : time > horizon)

SeqFirst(s) == s[1]

SeqMax(s) == CHOOSE x \in {s[i] : i \in 1..Len(s)} :
                 \A y \in {s[i] : i \in 1..Len(s)} : y <= x
SeqMin(s) == CHOOSE x \in {s[i] : i \in 1..Len(s)} :
                 \A y \in {s[i] : i \in 1..Len(s)} : x <= y

Floor1000(ms) == ms \div 1000
Ceil1000(ms) == (ms + 999) \div 1000
Max(a, b) == IF a >= b THEN a ELSE b

(***************************************************************************)
(* Double arithmetic on userData.violations.  In units of 2^-55 the double *)
(* 0.1 is D = 0xCCCCCCCCCCCCD and 1 is 10 * D - 2; only D mod 1024 = 205   *)
(* is needed to round.  Values below 0.25 (t <= 2) are exact; above, the   *)
(* spacing of doubles doubles at 0.5, 1, 2, 4, ...                         *)
(***************************************************************************)
TenthLowBits == 205
ZeroViolations == [t |-> 0, e |-> 0]

RECURSIVE Spacing(_, _, _, _)
Spacing(t, e, b, u) ==
    IF t < b \/ (t = b /\ e < -(b \div 5)) THEN u ELSE Spacing(t, e, 2 * b, 2 * u)

Ulp(t, e) == IF t <= 2 THEN 1 ELSE Spacing(t, e, 5, 2)

FpRound(t, e) ==
    LET U == Ulp(t, e)
        r == (t * TenthLowBits + e) % U
        q == (t * TenthLowBits + e) % (2 * U)
        down == [t |-> t, e |-> e - r]
        up == [t |-> t, e |-> e + U - r]
    IN IF 2 * r < U THEN down
       ELSE IF 2 * r > U THEN up
       ELSE IF q < U THEN down ELSE up

FpAddTenth(v) == FpRound(v.t + 1, v.e)
FpAddOne(v) == FpRound(v.t + 10, v.e - 2)

FpPositive(v) == v.t > 0 \/ v.e > 0

FpDecayTwice(v) ==
    IF v.t <= 1 \/ (v.t = 2 /\ v.e < 0) THEN ZeroViolations
    ELSE FpRound(v.t - 2, v.e)

FpDecay(v) ==
    IF v.t = 0 \/ (v.t = 1 /\ v.e < 0) THEN ZeroViolations
    ELSE FpRound(v.t - 1, v.e)

FpAtLeast(v, n) == v.t > 10 * n \/ (v.t = 10 * n /\ v.e >= -(2 * n))

(***************************************************************************)
(* Decisions.  fields is the set of properties the returned object has.    *)
(***************************************************************************)
NoRemaining == [minute |-> 0, hour |-> 0]

AllowedPlain ==
    [allowed |-> TRUE, reason |-> "none", retryAfter |-> 0,
     remaining |-> NoRemaining, fields |-> {"allowed"}]

AllowedWith(minute, hour) ==
    [allowed |-> TRUE, reason |-> "none", retryAfter |-> 0,
     remaining |-> [minute |-> minute, hour |-> hour],
     fields |-> {"allowed", "remaining"}]

Denied(reason, retryAfter) ==
    [allowed |-> FALSE, reason |-> reason, retryAfter |-> retryAfter,
     remaining |-> NoRemaining,
     fields |-> {"allowed", "reason", "retryAfter", "message"}]

DeniedWith(reason, retryAfter, minute, hour) ==
    [allowed |-> FALSE, reason |-> reason, retryAfter |-> retryAfter,
     remaining |-> [minute |-> minute, hour |-> hour],
     fields |-> {"allowed", "reason", "retryAfter", "remaining", "message"}]

(***************************************************************************)
(* checkUserLimit(userId, now)                                             *)
(***************************************************************************)
isPremium(prem, userId) == userId \in prem

minuteLimitOfStandard(cfg, prem, userId) == cfg.userRequestsPerMinute

minuteLimitOf(cfg, prem, userId) ==
    IF isPremium(prem, userId) THEN cfg.premiumUserRequestsPerMinute
    ELSE cfg.userRequestsPerMinute

hourLimitOf(cfg, prem, userId) ==
    IF isPremium(prem, userId) THEN cfg.premiumUserRequestsPerHour
    ELSE cfg.userRequestsPerHour

MinuteBreachOffByOne(recentMinute, minuteLimit) == recentMinute > minuteLimit
MinuteBreach(recentMinute, minuteLimit) == recentMinute >= minuteLimit
HourBreach(recentHour, hourLimit) == recentHour >= hourLimit
BanDueLate(violations) == FpAtLeast(violations, BanThreshold + 1)
BanDueEarly(violations) == FpAtLeast(violations, BanThreshold - 1)
BanDue(violations) == FpAtLeast(violations, BanThreshold)

MinuteRetryAfter(requests, now) ==
    1000 * Max(60 - Floor1000(now - SeqMax(Within(requests, now, MinuteMs))), 1)

HourRetryAfter(requests, now) ==
    1000 * Max(60 * 60 - Floor1000(now - SeqMin(requests)), 1)

checkUserLimit(ul, tb, prem, cfg, userId, now) ==
    LET minuteLimit == minuteLimitOf(cfg, prem, userId)
        hourLimit == hourLimitOf(cfg, prem, userId)
        ul1 == IF userId \in DOMAIN ul THEN ul
               ELSE MapSet(ul, userId, [requests |-> <<>>, violations |-> ZeroViolations])
        requests == Within(ul1[userId].requests, now, HourMs)
        violations == ul1[userId].violations
        recentMinute == Len(Within(requests, now, MinuteMs))
        recentHour == Len(requests)
        bumped == FpAddOne(violations)
        decayed == IF FpPositive(violations) THEN FpDecay(violations) ELSE violations
        with(v) == MapSet(ul1, userId, [requests |-> requests, violations |-> v])
    IN IF MinuteBreach(recentMinute, minuteLimit)
       THEN IF BanDue(bumped)
            THEN [userLimits |-> with(bumped),
                  tempBans |-> MapSet(tb, userId, now + cfg.tempBanDuration),
                  result |-> Denied("temp_ban_applied", cfg.tempBanDuration)]
            ELSE [userLimits |-> with(bumped),
                  tempBans |-> tb,
                  result |-> DeniedWith("minute_limit", MinuteRetryAfter(requests, now),
                                        0, hourLimit - recentHour)]
       ELSE IF HourBreach(recentHour, hourLimit)
       THEN [userLimits |-> with(violations),
             tempBans |-> tb,
             result |-> DeniedWith("hour_limit", HourRetryAfter(requests, now),
                                   minuteLimit - recentMinute, 0)]
       ELSE [userLimits |-> with(decayed),
             tempBans |-> tb,
             result |-> AllowedWith(minuteLimit - recentMinute, hourLimit - recentHour)]

(***************************************************************************)
(* checkGlobalLimit(now)                                                   *)
(***************************************************************************)
checkGlobalLimit(gl, cfg, now) ==
    LET gl1 == IF "global" \in DOMAIN gl THEN gl
               ELSE MapSet(gl, "global", [requests |-> <<>>])
        requests == Within(gl1["global"].requests, now, HourMs)
        recentMinute == Len(Within(requests, now, MinuteMs))
        recentHour == Len(requests)
        gl2 == MapSet(gl1, "global", [requests |-> requests])
    IN IF recentMinute >= cfg.globalRequestsPerMinute
       THEN [globalLimits |-> gl2, result |-> Denied("global_minute_limit", 1000 * 60)]
       ELSE IF recentHour >= cfg.globalRequestsPerHour
       THEN [globalLimits |-> gl2, result |-> Denied("global_hour_limit", 1000 * 3600)]
       ELSE [globalLimits |-> gl2, result |-> AllowedPlain]

recordRequestDropped(ul, userId, timestamp) == ul

recordGlobalRequestDropped(gl, timestamp) == gl

recordRequest(ul, userId, timestamp) ==
    MapSet(ul, userId, [ul[userId] EXCEPT !.requests = Append(@, timestamp)])

recordGlobalRequest(gl, timestamp) ==
    MapSet(gl, "global", [requests |-> Append(gl["global"].requests, timestamp)])

(***************************************************************************)
(* checkRateLimit(userId)                                                  *)
(***************************************************************************)
BanActiveFlipped(now, banExpiry) == now > banExpiry
BanActiveInclusive(now, banExpiry) == now <= banExpiry
BanActive(now, banExpiry) == now < banExpiry

checkRateLimitExtendsBan(ul, gl, tb, prem, cfg, userId, now) ==
    IF userId \in DOMAIN tb /\ BanActive(now, tb[userId])
    THEN [userLimits |-> ul, globalLimits |-> gl,
          tempBans |-> MapSet(tb, userId, now + cfg.tempBanDuration),
          result |-> Denied("temp_ban", 1000 * Ceil1000(tb[userId] - now))]
    ELSE LET tb1 == MapDelete(tb, userId)
             userCheck == checkUserLimit(ul, tb1, prem, cfg, userId, now)
             globalCheck == checkGlobalLimit(gl, cfg, now)
         IN IF ~userCheck.result.allowed
            THEN [userLimits |-> userCheck.userLimits, globalLimits |-> gl,
                  tempBans |-> userCheck.tempBans, result |-> userCheck.result]
            ELSE IF ~globalCheck.result.allowed
            THEN [userLimits |-> userCheck.userLimits,
                  globalLimits |-> globalCheck.globalLimits,
                  tempBans |-> userCheck.tempBans, result |-> globalCheck.result]
            ELSE [userLimits |-> recordRequest(userCheck.userLimits, userId, now),
                  globalLimits |-> recordGlobalRequest(globalCheck.globalLimits, now),
                  tempBans |-> userCheck.tempBans, result |-> AllowedPlain]

checkRateLimitGlobalFirst(ul, gl, tb, prem, cfg, userId, now) ==
    IF userId \in DOMAIN tb /\ BanActive(now, tb[userId])
    THEN [userLimits |-> ul, globalLimits |-> gl, tempBans |-> tb,
          result |-> Denied("temp_ban", 1000 * Ceil1000(tb[userId] - now))]
    ELSE LET tb1 == MapDelete(tb, userId)
             userCheck == checkUserLimit(ul, tb1, prem, cfg, userId, now)
             globalCheck == checkGlobalLimit(gl, cfg, now)
         IN IF ~globalCheck.result.allowed
            THEN [userLimits |-> ul, globalLimits |-> globalCheck.globalLimits,
                  tempBans |-> tb1, result |-> globalCheck.result]
            ELSE IF ~userCheck.result.allowed
            THEN [userLimits |-> userCheck.userLimits,
                  globalLimits |-> globalCheck.globalLimits,
                  tempBans |-> userCheck.tempBans, result |-> userCheck.result]
            ELSE [userLimits |-> recordRequest(userCheck.userLimits, userId, now),
                  globalLimits |-> recordGlobalRequest(globalCheck.globalLimits, now),
                  tempBans |-> userCheck.tempBans, result |-> AllowedPlain]

checkRateLimit(ul, gl, tb, prem, cfg, userId, now) ==
    IF userId \in DOMAIN tb /\ BanActive(now, tb[userId])
    THEN [userLimits |-> ul, globalLimits |-> gl, tempBans |-> tb,
          result |-> Denied("temp_ban", 1000 * Ceil1000(tb[userId] - now))]
    ELSE LET tb1 == MapDelete(tb, userId)
             userCheck == checkUserLimit(ul, tb1, prem, cfg, userId, now)
             globalCheck == checkGlobalLimit(gl, cfg, now)
         IN IF ~userCheck.result.allowed
            THEN [userLimits |-> userCheck.userLimits, globalLimits |-> gl,
                  tempBans |-> userCheck.tempBans, result |-> userCheck.result]
            ELSE IF ~globalCheck.result.allowed
            THEN [userLimits |-> userCheck.userLimits,
                  globalLimits |-> globalCheck.globalLimits,
                  tempBans |-> userCheck.tempBans, result |-> globalCheck.result]
            ELSE [userLimits |-> recordRequest(userCheck.userLimits, userId, now),
                  globalLimits |-> recordGlobalRequest(globalCheck.globalLimits, now),
                  tempBans |-> userCheck.tempBans, result |-> AllowedPlain]

(***************************************************************************)
(* getUserStats(userId), getGlobalStats()                                  *)
(***************************************************************************)
getUserStats(ul, tb, prem, cfg, userId, now) ==
    LET requests == IF userId \in DOMAIN ul THEN ul[userId].requests ELSE <<>>
        violations == IF userId \in DOMAIN ul THEN ul[userId].violations
                      ELSE ZeroViolations
    IN [of |-> "user",
        isPremium |-> isPremium(prem, userId),
        minute |-> [used |-> Len(Within(requests, now, MinuteMs)),
                    limit |-> minuteLimitOf(cfg, prem, userId)],
        hour |-> [used |-> Len(Within(requests, now, HourMs)),
                  limit |-> hourLimitOf(cfg, prem, userId)],
        violations |-> violations,
        tempBanned |-> userId \in DOMAIN tb]

getGlobalStats(ul, gl, tb, cfg, now) ==
    LET requests == IF "global" \in DOMAIN gl THEN gl["global"].requests ELSE <<>>
    IN [of |-> "global",
        minute |-> [used |-> Len(Within(requests, now, MinuteMs)),
                    limit |-> cfg.globalRequestsPerMinute],
        hour |-> [used |-> Len(Within(requests, now, HourMs)),
                  limit |-> cfg.globalRequestsPerHour],
        activeUsers |-> Cardinality(DOMAIN ul),
        tempBannedUsers |-> Cardinality(DOMAIN tb)]

(***************************************************************************)
(* cleanup()                                                               *)
(***************************************************************************)
BanExpired(now, expiry) == now > expiry

cleanupUsersKeepsAll(ul, now) ==
    [u \in DOMAIN ul |-> [requests |-> After(ul[u].requests, now - HourMs),
                          violations |-> ul[u].violations]]

cleanupUsers(ul, now) ==
    LET pruned(u) == After(ul[u].requests, now - HourMs)
        kept == {u \in DOMAIN ul :
                    ~(Len(pruned(u)) = 0 /\ ul[u].violations = ZeroViolations)}
    IN [u \in kept |-> [requests |-> pruned(u), violations |-> ul[u].violations]]

cleanupGlobalToMinute(gl, now) ==
    [g \in DOMAIN gl |-> [requests |-> After(gl[g].requests, now - MinuteMs)]]

cleanupGlobal(gl, now) ==
    [g \in DOMAIN gl |-> [requests |-> After(gl[g].requests, now - HourMs)]]

cleanupBans(tb, now) ==
    [u \in {x \in DOMAIN tb : ~BanExpired(now, tb[x])} |-> tb[u]]

(***************************************************************************)
(* State and operations.  ops counts the operations performed and advances *)
(* the clock changes.  admitted, clearedAt, hist and last are history      *)
(* variables: every admitted request of each caller; the length of that    *)
(* history at the caller's last clearUserLimits; per caller, the minute    *)
(* breaches and the passed per-caller checks since its violation count was *)
(* last 0, and the violation count (in tenths) at the start and the length *)
(* of its current run of admitted requests, its last call when that was    *)
(* denied for a ban, and its last call when that was denied for a ban or a *)
(* per-caller quota; the last operation with what                          *)
(* it returned.  inbound holds the user actions received by the dispatch   *)
(* layer (src/bot.js, src/handlers/messageHandler.js), each with the       *)
(* position of its handler.                                                *)
(***************************************************************************)
NoResult ==
    [allowed |-> FALSE, reason |-> "none", retryAfter |-> 0,
     remaining |-> NoRemaining, fields |-> {}]

NoDenial == [reason |-> "none", at |-> 0, retryAfter |-> 0]

(* No denial for a ban or a per-caller quota, with the tier the caller had *)
(* and whether its record held more than that tier's hour quota.            *)
NotDenied ==
    [reason |-> "none", at |-> 0, retryAfter |-> 0, premium |-> FALSE,
     excess |-> FALSE]

NoHist ==
    [breaches |-> 0, passes |-> 0, runFrom |-> 0, runLen |-> 0, banned |-> NoDenial,
     denied |-> NotDenied]

NoStats == [of |-> "none"]

Done(op, userId, result) ==
    [op |-> op, userId |-> userId, now |-> clock, result |-> result, sweeps |-> 0,
     stats |-> NoStats]

(* The sweeps run in a row at this instant, this one included. *)
SweepsInARow ==
    IF last.op = "cleanup" /\ last.now = clock THEN last.sweeps + 1 ELSE 1

requestsOf(ul, userId) ==
    IF userId \in DOMAIN ul THEN ul[userId].requests ELSE <<>>

violationsOf(ul, userId) ==
    IF userId \in DOMAIN ul THEN ul[userId].violations ELSE ZeroViolations

HistAfter(h, violations, result, premium, excess) ==
    LET base == IF violations = ZeroViolations THEN NoHist ELSE h
        breach == result.reason \in {"minute_limit", "temp_ban_applied"}
        passed == result.allowed
                  \/ result.reason \in {"global_minute_limit", "global_hour_limit"}
    IN [breaches |-> base.breaches + (IF breach THEN 1 ELSE 0),
        passes |-> base.passes + (IF passed THEN 1 ELSE 0),
        runFrom |-> IF ~result.allowed THEN 0
                    ELSE IF h.runLen = 0 THEN violations.t ELSE h.runFrom,
        runLen |-> IF result.allowed THEN h.runLen + 1 ELSE 0,
        banned |-> IF result.reason \in {"temp_ban", "temp_ban_applied"}
                   THEN [reason |-> result.reason, at |-> clock,
                         retryAfter |-> result.retryAfter]
                   ELSE NoDenial,
        denied |-> IF result.reason \in {"temp_ban", "temp_ban_applied",
                                         "minute_limit", "hour_limit"}
                   THEN [reason |-> result.reason, at |-> clock,
                         retryAfter |-> result.retryAfter, premium |-> premium,
                         excess |-> excess]
                   ELSE NotDenied]

(* An inbound user action the dispatch layer has not received yet. *)
NotReceived ==
    [kind |-> "none", userId |-> "none", pc |-> "idle", checks |-> 0,
     allowed |-> FALSE, requests |-> 0, receivedAt |-> 0, checkedAt |-> 0,
     slots |-> 0]

InitWith(cfg, lists) ==
    /\ userLimits = EmptyMap
    /\ globalLimits = EmptyMap
    /\ tempBans = EmptyMap
    /\ premiumUsers \in lists
    /\ config = cfg
    /\ clock = 0
    /\ advances = 0
    /\ ops = 0
    /\ admitted = [u \in Callers |-> <<>>]
    /\ clearedAt = [u \in Callers |-> 0]
    /\ hist = [u \in Callers |-> NoHist]
    /\ last = [op |-> "constructor", userId |-> "none", now |-> 0,
               result |-> NoResult, sweeps |-> 0, stats |-> NoStats]
    /\ inbound = [h \in 1..MaxInbound |-> NotReceived]

Init == InitWith(SmallConfig, PremiumLists)

Call(userId) ==
    LET r == checkRateLimit(userLimits, globalLimits, tempBans, premiumUsers,
                            config, userId, clock)
    IN /\ userLimits' = r.userLimits
       /\ globalLimits' = r.globalLimits
       /\ tempBans' = r.tempBans
       /\ admitted' = IF r.result.allowed
                      THEN [admitted EXCEPT ![userId] = Append(@, clock)]
                      ELSE admitted
       /\ hist' = [hist EXCEPT ![userId] =
                       HistAfter(@, violationsOf(userLimits, userId), r.result,
                                 isPremium(premiumUsers, userId),
                                 Len(Within(requestsOf(userLimits, userId), clock, HourMs))
                                     > hourLimitOf(config, premiumUsers, userId))]
       /\ last' = Done("checkRateLimit", userId, r.result)
       /\ ops' = ops + 1
       /\ UNCHANGED <<premiumUsers, config, clock, advances, clearedAt>>

(* The operations and clock changes of one run number at most MaxSteps. *)
WithinSteps == ops + advances < MaxSteps

CheckRateLimit(userId) ==
    /\ ops < MaxOps
    /\ WithinSteps
    /\ Call(userId)
    /\ UNCHANGED inbound

Sweep ==
    /\ userLimits' = cleanupUsers(userLimits, clock)
    /\ globalLimits' = cleanupGlobal(globalLimits, clock)
    /\ tempBans' = cleanupBans(tempBans, clock)
    /\ last' = [Done("cleanup", "none", NoResult) EXCEPT !.sweeps = SweepsInARow]
    /\ ops' = ops + 1
    /\ UNCHANGED <<premiumUsers, config, clock, advances, admitted, clearedAt, hist,
                   inbound>>

AddPremium(userId) ==
    /\ premiumUsers' = premiumUsers \cup {userId}
    /\ last' = Done("addPremiumUser", userId, NoResult)
    /\ ops' = ops + 1
    /\ UNCHANGED <<userLimits, globalLimits, tempBans, config, clock, advances,
                   admitted, clearedAt, hist, inbound>>

RemovePremium(userId) ==
    /\ premiumUsers' = premiumUsers \ {userId}
    /\ last' = Done("removePremiumUser", userId, NoResult)
    /\ ops' = ops + 1
    /\ UNCHANGED <<userLimits, globalLimits, tempBans, config, clock, advances,
                   admitted, clearedAt, hist, inbound>>

ClearKeepsBan(userId) ==
    /\ userLimits' = MapDelete(userLimits, userId)
    /\ tempBans' = tempBans
    /\ clearedAt' = [clearedAt EXCEPT ![userId] = Len(admitted[userId])]
    /\ hist' = [hist EXCEPT ![userId] = NoHist]
    /\ last' = Done("clearUserLimits", userId, NoResult)
    /\ ops' = ops + 1
    /\ UNCHANGED <<globalLimits, premiumUsers, config, clock, advances, admitted,
                   inbound>>

Clear(userId) ==
    /\ userLimits' = MapDelete(userLimits, userId)
    /\ tempBans' = MapDelete(tempBans, userId)
    /\ clearedAt' = [clearedAt EXCEPT ![userId] = Len(admitted[userId])]
    /\ hist' = [hist EXCEPT ![userId] = NoHist]
    /\ last' = Done("clearUserLimits", userId, NoResult)
    /\ ops' = ops + 1
    /\ UNCHANGED <<globalLimits, premiumUsers, config, clock, advances, admitted,
                   inbound>>

AddPremiumUser(userId) ==
    /\ ops < MaxOps
    /\ WithinSteps
    /\ AddPremium(userId)

RemovePremiumUser(userId) ==
    /\ ops < MaxOps
    /\ WithinSteps
    /\ RemovePremium(userId)

Cleanup ==
    /\ ops < MaxOps
    /\ WithinSteps
    /\ Sweep

ClearUserLimits(userId) ==
    /\ ops < MaxOps
    /\ WithinSteps
    /\ Clear(userId)

Tick(d) ==
    /\ clock' = clock + d
    /\ advances' = advances + 1
    /\ UNCHANGED <<userLimits, globalLimits, tempBans, premiumUsers, config,
                   ops, admitted, clearedAt, hist, last, inbound>>

AdvanceClock(d) ==
    /\ advances < MaxAdvances
    /\ WithinSteps
    /\ Tick(d)

Next ==
    \/ \E userId \in Callers : CheckRateLimit(userId)
    \/ Cleanup
    \/ \E userId \in Callers : AddPremiumUser(userId)
    \/ \E userId \in Callers : RemovePremiumUser(userId)
    \/ \E userId \in Callers : ClearUserLimits(userId)
    \/ \E d \in Deltas : AdvanceClock(d)

Spec == Init /\ [][Next]_vars

(***************************************************************************)
(* The limiter with the premium set fixed at construction: requests and    *)
(* sweeps only.                                                            *)
(***************************************************************************)
NextFixed ==
    \/ \E userId \in Callers : CheckRateLimit(userId)
    \/ Cleanup
    \/ \E d \in Deltas : AdvanceClock(d)

SpecFixed == Init /\ [][NextFixed]_vars

(***************************************************************************)
(* The limiter of a deployment with no environment variable set, or only   *)
(* PREMIUM_USERS, under a burst of requests of one caller.                 *)
(***************************************************************************)
InitDefault == InitWith(DefaultConfig, PremiumLists)

BurstCall(userId) ==
    /\ ops < MaxBurst
    /\ Call(userId)
    /\ UNCHANGED inbound

BurstAdvance(d) ==
    /\ advances < MaxBurstAdvances
    /\ Tick(d)

NextDefault ==
    \/ \E userId \in BurstCallers : BurstCall(userId)
    \/ \E d \in Deltas : BurstAdvance(d)

SpecDefault == InitDefault /\ [][NextDefault]_vars

(***************************************************************************)
(* One caller that keeps calling, retrying after its denials, with sweeps  *)
(* and clearUserLimits of it in between.                                   *)
(***************************************************************************)
RetryCall(userId) ==
    /\ ops < MaxRetryOps
    /\ Call(userId)
    /\ UNCHANGED inbound

RetryCleanup ==
    /\ ops < MaxRetryOps
    /\ Sweep

RetryClear(userId) ==
    /\ ops < MaxRetryOps
    /\ Clear(userId)

RetryAdvance(d) ==
    /\ advances < MaxAdvances
    /\ Tick(d)

NextRetry ==
    \/ \E userId \in RetryCallers : RetryCall(userId)
    \/ RetryCleanup
    \/ \E userId \in RetryCallers : RetryClear(userId)
    \/ \E d \in Deltas : RetryAdvance(d)

SpecRetry == Init /\ [][NextRetry]_vars

(***************************************************************************)
(* The limiter with its whole administrative surface, the two usage        *)
(* snapshots included.                                                     *)
(***************************************************************************)
StatsCall(userId) ==
    /\ ops < MaxStatsOps
    /\ Call(userId)
    /\ UNCHANGED inbound

StatsCleanup ==
    /\ ops < MaxStatsOps
    /\ Sweep

StatsAddPremiumUser(userId) ==
    /\ ops < MaxStatsOps
    /\ AddPremium(userId)

StatsRemovePremiumUser(userId) ==
    /\ ops < MaxStatsOps
    /\ RemovePremium(userId)

StatsClearUserLimits(userId) ==
    /\ ops < MaxStatsOps
    /\ Clear(userId)

GetUserStats(userId) ==
    /\ ops < MaxStatsOps
    /\ last' = [Done("getUserStats", userId, NoResult) EXCEPT !.stats =
                    getUserStats(userLimits, tempBans, premiumUsers, config,
                                 userId, clock)]
    /\ ops' = ops + 1
    /\ UNCHANGED <<userLimits, globalLimits, tempBans, premiumUsers, config, clock,
                   advances, admitted, clearedAt, hist, inbound>>

GetGlobalStats ==
    /\ ops < MaxStatsOps
    /\ last' = [Done("getGlobalStats", "none", NoResult) EXCEPT !.stats =
                    getGlobalStats(userLimits, globalLimits, tempBans, config, clock)]
    /\ ops' = ops + 1
    /\ UNCHANGED <<userLimits, globalLimits, tempBans, premiumUsers, config, clock,
                   advances, admitted, clearedAt, hist, inbound>>

StatsAdvance(d) ==
    /\ advances < MaxStatsAdvances
    /\ Tick(d)

NextStats ==
    \/ \E userId \in Callers : StatsCall(userId)
    \/ StatsCleanup
    \/ \E userId \in Callers : StatsAddPremiumUser(userId)
    \/ \E userId \in Callers : StatsRemovePremiumUser(userId)
    \/ \E userId \in Callers : StatsClearUserLimits(userId)
    \/ \E userId \in Callers : GetUserStats(userId)
    \/ GetGlobalStats
    \/ \E d \in Deltas : StatsAdvance(d)

SpecStats == Init /\ [][NextStats]_vars

(***************************************************************************)
(* A premium caller that is removed from the premium set and added again   *)
(* while it keeps calling, with sweeps in between.                         *)
(***************************************************************************)
InitTier == InitWith(SmallConfig, {TierCallers})

TierCall(userId) ==
    /\ ops < MaxTierOps
    /\ Call(userId)
    /\ UNCHANGED inbound

TierCleanup ==
    /\ ops < MaxTierOps
    /\ Sweep

TierAddPremiumUser(userId) ==
    /\ ops < MaxTierOps
    /\ AddPremium(userId)

TierRemovePremiumUser(userId) ==
    /\ ops < MaxTierOps
    /\ RemovePremium(userId)

TierAdvance(d) ==
    /\ advances < MaxTierAdvances
    /\ Tick(d)

NextTier ==
    \/ \E userId \in TierCallers : TierCall(userId)
    \/ TierCleanup
    \/ \E userId \in TierCallers : TierAddPremiumUser(userId)
    \/ \E userId \in TierCallers : TierRemovePremiumUser(userId)
    \/ \E d \in TierDeltas : TierAdvance(d)

SpecTier == InitTier /\ [][NextTier]_vars

(***************************************************************************)
(* The same caller under deployments that set TEMP_BAN_DURATION.           *)
(***************************************************************************)
InitConfigured ==
    \E duration \in BanDurations :
        InitWith([SmallConfig EXCEPT !.tempBanDuration = duration], PremiumLists)

SpecConfigured == InitConfigured /\ [][NextRetry]_vars

(***************************************************************************)
(* Vocabulary of the properties, stated over the history variables and the *)
(* configuration rather than over the operators above.                     *)
(***************************************************************************)
CountIn(s, t, window) ==
    Cardinality({i \in 1..Len(s) : s[i] <= t /\ t - s[i] < window})

Stamps(s) == {s[i] : i \in 1..Len(s)}

TierMinuteQuota(u) ==
    IF u \in premiumUsers THEN config.premiumUserRequestsPerMinute
    ELSE config.userRequestsPerMinute

TierHourQuota(u) ==
    IF u \in premiumUsers THEN config.premiumUserRequestsPerHour
    ELSE config.userRequestsPerHour

RECURSIVE SumOver(_, _)
SumOver(f, S) ==
    IF S = {} THEN 0
    ELSE LET x == CHOOSE y \in S : TRUE IN f[x] + SumOver(f, S \ {x})

AdmittedIn(t, window) ==
    SumOver([u \in Callers |-> CountIn(admitted[u], t, window)], Callers)

SinceClear(u) == SubSeq(admitted[u], clearedAt[u] + 1, Len(admitted[u]))

LastCallBy(u) == last.op = "checkRateLimit" /\ last.userId = u

(* A window (t - w, t] holds the most requests when t is a request's       *)
(* timestamp, so the instants that matter are the timestamps and now.      *)
Instants == {clock} \cup UNION {Stamps(admitted[u]) : u \in Callers}

\* C1: with the premium set fixed, after any sequence of checkRateLimit calls
\* and sweeps at non-decreasing times, for every caller and every instant t
\* the caller's admitted requests with timestamp in (t-60s, t] number at most
\* the tier minute quota, and those in (t-3600s, t] at most the tier hour quota.
C1_CallerQuotaWindows ==
    \A u \in Callers : \A t \in Instants :
        /\ CountIn(admitted[u], t, MinuteMs) <= TierMinuteQuota(u)
        /\ CountIn(admitted[u], t, HourMs) <= TierHourQuota(u)

C1_Witness ==
    \E u \in Callers :
        /\ LastCallBy(u)
        /\ last.result.reason = "hour_limit"
        /\ CountIn(admitted[u], clock, HourMs) = TierHourQuota(u)
        /\ CountIn(admitted[u], clock, MinuteMs) < TierMinuteQuota(u)

\* C2: after any sequence of checkRateLimit calls by any mix of callers, sweeps
\* and administrative operations, the admitted requests of all callers in any
\* trailing 60-second window number at most the global minute quota, and in
\* any trailing 3600-second window at most the global hour quota.
C2_GlobalQuotaWindows ==
    \A t \in Instants :
        /\ AdmittedIn(t, MinuteMs) <= config.globalRequestsPerMinute
        /\ AdmittedIn(t, HourMs) <= config.globalRequestsPerHour

C2_Witness ==
    /\ last.op = "checkRateLimit"
    /\ last.result.reason = "global_minute_limit"
    /\ \E u \in Callers : clearedAt[u] > 0
    /\ AdmittedIn(clock, MinuteMs) = config.globalRequestsPerMinute

\* C3 (as claimed): for every caller, also with clearUserLimits or
\* removePremiumUser interleaved, the caller's admitted requests in the
\* trailing 60-second window never exceed the minute quota of the tier the
\* caller has at that instant.
C3_BoundSurvivesAdministration ==
    \A u \in Callers : CountIn(admitted[u], clock, MinuteMs) <= TierMinuteQuota(u)

\* C3 (amended): at the instant a checkRateLimit call admits a caller's
\* request, the requests of that caller admitted since its last
\* clearUserLimits and lying in the trailing 60-second window, the new one
\* included, number at most the minute quota of the tier the caller has at
\* that instant.
C3_BoundAtAdmissionSinceClear ==
    \A u \in Callers :
        (LastCallBy(u) /\ last.result.allowed)
            => CountIn(SinceClear(u), last.now, MinuteMs) <= TierMinuteQuota(u)

C3_Witness ==
    \E u \in Callers :
        /\ LastCallBy(u)
        /\ last.result.allowed
        /\ clearedAt[u] > 0
        /\ CountIn(admitted[u], last.now, MinuteMs) > TierMinuteQuota(u)

(***************************************************************************)
(* The state a call finds, read from the ledger before the call.           *)
(***************************************************************************)
RecordStamps(u) == IF u \in DOMAIN userLimits THEN userLimits[u].requests ELSE <<>>

GlobalStamps ==
    IF "global" \in DOMAIN globalLimits THEN globalLimits["global"].requests ELSE <<>>

ViolationsNow(u) ==
    IF u \in DOMAIN userLimits THEN userLimits[u].violations ELSE [t |-> 0, e |-> 0]

ActiveBan(u) == u \in DOMAIN tempBans /\ clock < tempBans[u]
UserMinute(u) == CountIn(RecordStamps(u), clock, MinuteMs)
UserHour(u) == CountIn(RecordStamps(u), clock, HourMs)
GlobalMinute == CountIn(GlobalStamps, clock, MinuteMs)
GlobalHour == CountIn(GlobalStamps, clock, HourMs)

AtLeastThree(v) == v.t > 30 \/ (v.t = 30 /\ v.e >= -6)
Abs(x) == IF x < 0 THEN -x ELSE x

(* The step is a checkRateLimit call by u. *)
Calls(u) == ops' = ops + 1 /\ last'.op = "checkRateLimit" /\ last'.userId = u

(* What the quota rules alone decide for u in the current state. *)
QuotaDecision(u) ==
    IF UserMinute(u) >= TierMinuteQuota(u) THEN {"minute_limit", "temp_ban_applied"}
    ELSE IF UserHour(u) >= TierHourQuota(u) THEN {"hour_limit"}
    ELSE IF GlobalMinute >= config.globalRequestsPerMinute THEN {"global_minute_limit"}
    ELSE IF GlobalHour >= config.globalRequestsPerHour THEN {"global_hour_limit"}
    ELSE {"none"}

\* C4: checkRateLimit evaluates the ban check, then the per-caller check, then
\* the global check, and the first failing check decides: an active ban gives
\* temp_ban whatever the counts; without one, a caller at its minute quota gets
\* minute_limit or temp_ban_applied and a caller at its hour quota hour_limit
\* even when the global quota is exhausted; a global_* reason is returned only
\* when the ban check and both per-caller checks pass.
C4_CheckOrder ==
    [][\A u \in Callers : Calls(u) =>
        LET reason == last'.result.reason
        IN /\ ActiveBan(u) => reason = "temp_ban"
           /\ (~ActiveBan(u) /\ UserMinute(u) >= TierMinuteQuota(u))
                 => reason \in {"minute_limit", "temp_ban_applied"}
           /\ (~ActiveBan(u) /\ UserMinute(u) < TierMinuteQuota(u)
                 /\ UserHour(u) >= TierHourQuota(u))
                 => reason = "hour_limit"
           /\ reason \in {"global_minute_limit", "global_hour_limit"}
                 => /\ ~ActiveBan(u)
                    /\ UserMinute(u) < TierMinuteQuota(u)
                    /\ UserHour(u) < TierHourQuota(u)
           /\ last'.result.allowed <=> reason = "none"]_vars

C4_Witness ==
    \E u \in Callers :
        /\ LastCallBy(u)
        /\ last.now = clock
        /\ last.result.reason = "hour_limit"
        /\ GlobalHour >= config.globalRequestsPerHour

\* C5: for a caller with a ban entry of expiry E, every checkRateLimit call at
\* now < E is denied with reason temp_ban whatever the caller's counts and
\* tier; the first call at now >= E removes the ban entry and is decided by the
\* ordinary per-caller and global quota rules.
C5_BanUntilExpiry ==
    [][\A u \in Callers : (Calls(u) /\ u \in DOMAIN tempBans) =>
        LET reason == last'.result.reason
        IN IF clock < tempBans[u]
           THEN /\ reason = "temp_ban"
                /\ ~last'.result.allowed
           ELSE /\ reason \in QuotaDecision(u)
                /\ last'.result.allowed <=> reason = "none"
                /\ u \in DOMAIN tempBans'
                     => /\ reason = "temp_ban_applied"
                        /\ tempBans'[u] = clock + config.tempBanDuration]_vars

C5_Witness ==
    \E u \in Callers :
        /\ LastCallBy(u)
        /\ last.now = clock
        /\ last.result.allowed
        /\ hist[u].breaches >= 3
        /\ u \notin DOMAIN tempBans
        /\ clock = config.tempBanDuration

\* C6: on a per-caller minute breach (trailing-minute count >= tier minute
\* quota, no active ban) the violation count rises by exactly 1; a ban with
\* expiry now + banDuration is installed and temp_ban_applied with
\* retryAfter = banDuration/1000 is returned if and only if the raised count is
\* >= 3; otherwise the result is minute_limit and no ban entry is created.
C6_BreachEscalation ==
    [][\A u \in Callers :
        (Calls(u) /\ ~ActiveBan(u) /\ UserMinute(u) >= TierMinuteQuota(u)) =>
        LET before == ViolationsNow(u)
            after == userLimits'[u].violations
            res == last'.result
        IN /\ after.t = before.t + 10
           /\ 2 * Abs(after.e - (before.e - 2)) <= Ulp(after.t, after.e)
           /\ IF AtLeastThree(after)
              THEN /\ res.reason = "temp_ban_applied"
                   /\ res.retryAfter = config.tempBanDuration
                   /\ u \in DOMAIN tempBans'
                   /\ tempBans'[u] = clock + config.tempBanDuration
              ELSE /\ res.reason = "minute_limit"
                   /\ u \notin DOMAIN tempBans']_vars

C6_Witness ==
    \E u \in Callers :
        /\ LastCallBy(u)
        /\ last.result.reason = "temp_ban_applied"
        /\ u \in DOMAIN tempBans
        /\ tempBans[u] = last.now + config.tempBanDuration
        /\ last.now > 0

\* C7 (as claimed): starting from violation count 0, the caller's third
\* minute-limit breach returns temp_ban_applied with retryAfter equal to the
\* ban duration in seconds, whatever the time gaps between the three breaches
\* and whatever requests were admitted between them.
C7_ThirdBreachBans ==
    \A u \in Callers :
        (LastCallBy(u) /\ last.result.reason \in {"minute_limit", "temp_ban_applied"}
            /\ hist[u].breaches = 3)
            => /\ last.result.reason = "temp_ban_applied"
               /\ last.result.retryAfter = config.tempBanDuration

\* C7 (amended): starting from violation count 0, the caller's third
\* minute-limit breach returns temp_ban_applied with retryAfter equal to the
\* ban duration in seconds, whatever the time gaps between the three breaches,
\* when no call of that caller passed the per-caller check between them.
C7_ThirdBreachBansWithoutDecay ==
    \A u \in Callers :
        (LastCallBy(u) /\ last.result.reason \in {"minute_limit", "temp_ban_applied"}
            /\ hist[u].breaches = 3 /\ hist[u].passes = 0)
            => /\ last.result.reason = "temp_ban_applied"
               /\ last.result.retryAfter = config.tempBanDuration

C7_Witness ==
    \E u \in Callers :
        /\ LastCallBy(u)
        /\ last.result.reason = "temp_ban_applied"
        /\ hist[u].breaches = 3
        /\ hist[u].passes = 0
        /\ Len(admitted[u]) > 0
        /\ last.now - admitted[u][Len(admitted[u])] > 1

\* C8 (as claimed): every checkRateLimit call that admits the request returns
\* an Allowed decision carrying remaining = {minute, hour}, the tier quota
\* minus the trailing-minute and trailing-hour counts taken before the admitted
\* request was recorded.
C8_AllowedCarriesRemaining ==
    \A u \in Callers :
        (LastCallBy(u) /\ last.result.allowed)
            => /\ "remaining" \in last.result.fields
               /\ last.result.remaining =
                    [minute |-> TierMinuteQuota(u)
                                  - (CountIn(RecordStamps(u), last.now, MinuteMs) - 1),
                     hour |-> TierHourQuota(u)
                                  - (CountIn(RecordStamps(u), last.now, HourMs) - 1)]

\* C9: a caller with no prior history and tier minute quota Q (10 standard, 30
\* premium), with global capacity available, is admitted on each of its first
\* Q checkRateLimit calls made within one 60-second window and denied with
\* reason minute_limit on call Q+1 in that window.  (Under SpecDefault ops is
\* the number of calls the caller has made.)
C9_FirstQuotaAdmitted ==
    \A u \in BurstCallers :
        LET Q == IF u \in premiumUsers THEN 30 ELSE 10
        IN (LastCallBy(u) /\ last.now - admitted[u][1] < MinuteMs)
              => /\ ops <= Q => (last.result.allowed /\ Len(admitted[u]) = ops)
                 /\ ops = Q + 1 => /\ last.result.reason = "minute_limit"
                                   /\ ~last.result.allowed
                                   /\ Len(admitted[u]) = Q

C9_Witness ==
    \E u \in BurstCallers :
        /\ u \in premiumUsers
        /\ LastCallBy(u)
        /\ ops = 31
        /\ Len(admitted[u]) = 30
        /\ last.result.reason = "minute_limit"
        /\ last.now - admitted[u][1] = 59999

Lower(a, b) == a.t < b.t \/ (a.t = b.t /\ a.e < b.e)

RaisedByOne(before, after) ==
    /\ after.t = before.t + 10
    /\ 2 * Abs(after.e - (before.e - 2)) <= Ulp(after.t, after.e)

\* C11 (as claimed): a caller's violation count decreases only in a
\* checkRateLimit call that returns allowed; every call that returns a denial
\* (temp_ban, temp_ban_applied, minute_limit, hour_limit, global_minute_limit,
\* global_hour_limit) leaves the count not lower than it was before the call.
C11_DenialKeepsViolations ==
    [][\A u \in Callers : (Calls(u) /\ ~last'.result.allowed)
          => ~Lower(ViolationsNow(u)', ViolationsNow(u))]_vars

\* C12 (as claimed): a call denied with minute_limit, temp_ban_applied or
\* hour_limit leaves the caller's violation count exactly 1 higher than before
\* the call.
C12_EveryBreachIncrements ==
    [][\A u \in Callers :
        (Calls(u) /\ last'.result.reason
                        \in {"minute_limit", "temp_ban_applied", "hour_limit"})
          => RaisedByOne(ViolationsNow(u), ViolationsNow(u)')]_vars

\* C12 (amended): a call denied with minute_limit or temp_ban_applied leaves
\* the caller's violation count exactly 1 higher than before the call; a call
\* denied with hour_limit leaves the count as it was.
C12_MinuteBreachIncrements ==
    [][\A u \in Callers : Calls(u) =>
        /\ last'.result.reason \in {"minute_limit", "temp_ban_applied"}
             => RaisedByOne(ViolationsNow(u), ViolationsNow(u)')
        /\ last'.result.reason = "hour_limit"
             => ViolationsNow(u)' = ViolationsNow(u)]_vars

C12_Witness ==
    \E u \in Callers :
        /\ LastCallBy(u)
        /\ last.result.reason = "hour_limit"
        /\ hist[u].breaches = 1
        /\ ViolationsNow(u).t = 9

(***************************************************************************)
(* The dispatch layer: src/bot.js and src/handlers/messageHandler.js.      *)
(* Every handler is an async function: it runs without interruption up to  *)
(* its next await, where the handlers of other events may run.             *)
(* checkRateLimit holds no await, so the whole call is one step, taken     *)
(* when the handler reaches it.  The user actions are those that lead to   *)
(* a request to the AI service: a message, a slash command such as /debug, *)
(* and a click on a button such as debug_more under a response that holds  *)
(* code.  Each message has its own id, so the processingMessages guard of  *)
(* MessageHandler.handle lets every one of them through.  Per handler:     *)
(* checks counts its checkRateLimit calls, requests the requests it sent   *)
(* to the AI service; slots is the caller's free minute quota when the     *)
(* action was received.                                                    *)
(***************************************************************************)
Received(kind, userId, pc) ==
    [kind |-> kind, userId |-> userId, pc |-> pc, checks |-> 0,
     allowed |-> FALSE, requests |-> 0, receivedAt |-> clock, checkedAt |-> 0,
     slots |-> TierMinuteQuota(userId) - UserMinute(userId)]

Checked(h, result) ==
    [h EXCEPT !.pc = IF result.allowed THEN "admitted" ELSE "limited",
              !.checks = @ + 1,
              !.allowed = result.allowed,
              !.checkedAt = clock]

NextInbound(h) ==
    /\ inbound[h].pc = "idle"
    /\ \A g \in 1..(h - 1) : inbound[g].pc # "idle"

(* client.on('messageCreate') -> MessageHandler.handle up to its first     *)
(* await, which is the checkRateLimit call.                                *)
MessageCreate(h, userId) ==
    /\ NextInbound(h)
    /\ Call(userId)
    /\ inbound' = [inbound EXCEPT ![h] =
                       Checked(Received("message", userId, "idle"), last'.result)]

(* client.on('interactionCreate') up to deferReply (slash command) or      *)
(* deferUpdate (button).                                                   *)
InteractionCreate(h, kind, userId) ==
    /\ NextInbound(h)
    /\ inbound' = [inbound EXCEPT ![h] = Received(kind, userId, "deferred")]
    /\ UNCHANGED <<userLimits, globalLimits, tempBans, premiumUsers, config,
                   clock, advances, ops, admitted, clearedAt, hist, last>>

(* handleSlashCommand after deferReply: the checkRateLimit call.           *)
HandleSlashCommand(h) ==
    /\ inbound[h].pc = "deferred"
    /\ inbound[h].kind = "slash"
    /\ Call(inbound[h].userId)
    /\ inbound' = [inbound EXCEPT ![h] = Checked(@, last'.result)]

(* handleInteraction after deferUpdate: the button's handler, which sends  *)
(* its request to the AI service.                                          *)
HandleInteraction(h) ==
    /\ inbound[h].pc = "deferred"
    /\ inbound[h].kind = "button"
    /\ inbound' = [inbound EXCEPT ![h].pc = "requesting", ![h].requests = @ + 1]
    /\ UNCHANGED <<userLimits, globalLimits, tempBans, premiumUsers, config,
                   clock, advances, ops, admitted, clearedAt, hist, last>>

(* An admitted message or command: processAction / the command's handler   *)
(* sends the request to the AI service.                                    *)
ProcessAction(h) ==
    /\ inbound[h].pc = "admitted"
    /\ inbound' = [inbound EXCEPT ![h].pc = "requesting", ![h].requests = @ + 1]
    /\ UNCHANGED <<userLimits, globalLimits, tempBans, premiumUsers, config,
                   clock, advances, ops, admitted, clearedAt, hist, last>>

(* The reply: the answer of the AI service, or the rate limit notice.      *)
Reply(h) ==
    /\ inbound[h].pc \in {"requesting", "limited"}
    /\ inbound' = [inbound EXCEPT ![h].pc = "done"]
    /\ UNCHANGED <<userLimits, globalLimits, tempBans, premiumUsers, config,
                   clock, advances, ops, admitted, clearedAt, hist, last>>

InboundAdvance(d) ==
    /\ advances < MaxInboundAdvances
    /\ Tick(d)

NextDispatch ==
    \/ \E h \in 1..MaxInbound, userId \in Callers : MessageCreate(h, userId)
    \/ \E h \in 1..MaxInbound, kind \in {"slash", "button"}, userId \in Callers :
           InteractionCreate(h, kind, userId)
    \/ \E h \in 1..MaxInbound : HandleSlashCommand(h)
    \/ \E h \in 1..MaxInbound : HandleInteraction(h)
    \/ \E h \in 1..MaxInbound : ProcessAction(h)
    \/ \E h \in 1..MaxInbound : Reply(h)
    \/ \E d \in InboundDeltas : InboundAdvance(d)

SpecDispatch == Init /\ [][NextDispatch]_vars

\* C13: within one checkRateLimit call no other call, sweep or administrative
\* operation interleaves between the ban check, the quota checks and the
\* record step; consequently two concurrent requests of the same caller that
\* both arrive when exactly one slot of its minute quota remains are never
\* both admitted.
C13_OneSlotOneAdmission ==
    \A g, h \in 1..MaxInbound :
        (/\ g # h
         /\ inbound[g].userId = inbound[h].userId
         /\ inbound[g].checks = 1 /\ inbound[h].checks = 1
         /\ inbound[g].slots = 1 /\ inbound[h].slots = 1
         /\ inbound[g].receivedAt = inbound[h].receivedAt
         /\ inbound[g].checkedAt = inbound[g].receivedAt
         /\ inbound[h].checkedAt = inbound[h].receivedAt)
        => ~(inbound[g].allowed /\ inbound[h].allowed)

C13_Witness ==
    \E g, h \in 1..MaxInbound :
        /\ g # h
        /\ inbound[g].userId = inbound[h].userId
        /\ inbound[g].kind = "slash" /\ inbound[h].kind = "message"
        /\ inbound[g].checks = 1 /\ inbound[h].checks = 1
        /\ inbound[g].slots = 1 /\ inbound[h].slots = 1
        /\ inbound[g].receivedAt = inbound[h].receivedAt
        /\ inbound[g].checkedAt = inbound[g].receivedAt
        /\ inbound[h].checkedAt = inbound[h].receivedAt
        /\ inbound[g].receivedAt > 0
        /\ inbound[h].allowed /\ ~inbound[g].allowed

\* C14 (as claimed): if a caller is denied with a retry hint of r seconds and
\* calls checkRateLimit again before r seconds have elapsed (tier unchanged,
\* no administrative operation in between), that call is denied again.  Here
\* the retry is the caller's very next operation on the limiter.
C14_EarlyRetryDenied ==
    [][\A u \in Callers :
        (/\ LastCallBy(u)
         /\ ~last.result.allowed
         /\ Calls(u)
         /\ clock < last.now + last.result.retryAfter)
        => ~last'.result.allowed]_vars

\* C14 (amended): if a caller is denied with temp_ban_applied with a retry
\* hint of r seconds and calls checkRateLimit again before r seconds have
\* elapsed, or is denied with temp_ban with a retry hint of r seconds and calls
\* again before r - 1 seconds have elapsed, with no clearUserLimits of that
\* caller in between, the limiter denies that call again, with temp_ban.
C14_EarlyRetryOfBanDenied ==
    [][\A u \in Callers :
        LET denial == hist[u].banned
            early == IF denial.reason = "temp_ban_applied"
                     THEN clock < denial.at + denial.retryAfter
                     ELSE clock < denial.at + denial.retryAfter - 1000
        IN (Calls(u) /\ denial.reason # "none" /\ early)
              => /\ ~last'.result.allowed
                 /\ last'.result.reason = "temp_ban"]_vars

C14_Witness ==
    \E u \in Callers :
        /\ LastCallBy(u)
        /\ last.result.reason = "temp_ban"
        /\ last.result.retryAfter = 1000
        /\ last.now = 59999
        /\ ops = 6
        /\ hist[u].breaches = 3

\* C15: running the sweep twice at the same instant with no request or
\* administrative operation in between leaves the caller records, the
\* violation counts, the global record and the ban map exactly as the first
\* sweep left them.
C15_SweepIdempotent ==
    [][(/\ last.op = "cleanup"
        /\ last.now = clock
        /\ last'.op = "cleanup"
        /\ ops' = ops + 1)
       => /\ userLimits' = userLimits
          /\ globalLimits' = globalLimits
          /\ tempBans' = tempBans]_vars

C15_Witness ==
    /\ last.op = "cleanup"
    /\ last.sweeps = 2
    /\ \E u \in Callers : Len(admitted[u]) > 0 /\ u \notin DOMAIN userLimits
    /\ \E u \in Callers : u \in DOMAIN userLimits /\ ViolationsNow(u).t > 0
    /\ GlobalStamps = <<>>

\* C16 (as claimed): every denial returned by checkRateLimit carries a reason
\* from {temp_ban, temp_ban_applied, minute_limit, hour_limit,
\* global_minute_limit, global_hour_limit}, a message, and a retryAfter that
\* is an integer >= 1 (never 0), in every reachable state and for every
\* positive configured ban duration.
C16_DenialWellFormed ==
    (last.op = "checkRateLimit" /\ ~last.result.allowed)
        => /\ last.result.reason \in
                 {"temp_ban", "temp_ban_applied", "minute_limit", "hour_limit",
                  "global_minute_limit", "global_hour_limit"}
           /\ {"reason", "message", "retryAfter"} \subseteq last.result.fields
           /\ last.result.retryAfter % 1000 = 0
           /\ last.result.retryAfter >= 1000

\* C17 (as claimed): every inbound user action that leads to an AI request
\* (chat message, slash command, button interaction) passes through exactly
\* one checkRateLimit call for the acting user before the AI request is
\* issued, and no AI request is issued when that call returns a denial.
C17_EveryRequestChecked ==
    \A h \in 1..MaxInbound :
        /\ inbound[h].requests > 0 => (inbound[h].checks = 1 /\ inbound[h].allowed)
        /\ (inbound[h].checks > 0 /\ ~inbound[h].allowed) => inbound[h].requests = 0

(* The step is a clearUserLimits of u. *)
Clears(u) == ops' = ops + 1 /\ last'.op = "clearUserLimits" /\ last'.userId = u

(* What the global quota alone decides in the current state. *)
GlobalDecision ==
    IF GlobalMinute >= config.globalRequestsPerMinute THEN "global_minute_limit"
    ELSE IF GlobalHour >= config.globalRequestsPerHour THEN "global_hour_limit"
    ELSE "none"

\* C18: clearUserLimits(id) removes the caller's record (timestamps and
\* violation count) and the caller's ban entry, and leaves unchanged the
\* premium set, the global record and every other caller's record and ban; the
\* caller's next checkRateLimit call is decided as for a caller with empty
\* history and violation count 0: by the global quota alone, and an admitted
\* request starts a new record.
C18_ClearResetsOneCaller ==
    [][\A u \in Callers :
        /\ Clears(u) =>
             /\ u \notin DOMAIN userLimits'
             /\ u \notin DOMAIN tempBans'
             /\ premiumUsers' = premiumUsers
             /\ globalLimits' = globalLimits
             /\ \A v \in Callers \ {u} :
                  /\ v \in DOMAIN userLimits' <=> v \in DOMAIN userLimits
                  /\ v \in DOMAIN userLimits => userLimits'[v] = userLimits[v]
                  /\ v \in DOMAIN tempBans' <=> v \in DOMAIN tempBans
                  /\ v \in DOMAIN tempBans => tempBans'[v] = tempBans[v]
        /\ (Calls(u) /\ u \notin DOMAIN userLimits /\ u \notin DOMAIN tempBans) =>
             /\ last'.result.reason = GlobalDecision
             /\ last'.result.allowed <=> GlobalDecision = "none"
             /\ ViolationsNow(u)' = [t |-> 0, e |-> 0]
             /\ RecordStamps(u)' = IF GlobalDecision = "none" THEN <<clock>> ELSE <<>>]_vars

C18_Witness ==
    \E u \in Callers :
        /\ LastCallBy(u)
        /\ last.result.allowed
        /\ clearedAt[u] = 1
        /\ admitted[u] = <<last.now, last.now>>
        /\ TierMinuteQuota(u) = 1
        /\ RecordStamps(u) = <<last.now>>
        /\ ViolationsNow(u) = [t |-> 0, e |-> 0]
        /\ \E v \in Callers \ {u} : v \in DOMAIN userLimits

\* C19: the premium set changes only through addPremiumUser and
\* removePremiumUser: checkRateLimit, cleanup, clearUserLimits, getUserStats
\* and getGlobalStats leave it unchanged, membership never expires with time,
\* and a change of membership determines the quotas used by the caller's very
\* next checkRateLimit call (every call is decided by the quotas of the tier
\* the caller has when it is made).
C19_PremiumSetOnlyByAdmin ==
    [][/\ premiumUsers' # premiumUsers
          => /\ ops' = ops + 1
             /\ last'.op \in {"addPremiumUser", "removePremiumUser"}
       /\ (ops' = ops + 1 /\ last'.op = "addPremiumUser")
          => premiumUsers' = premiumUsers \cup {last'.userId}
       /\ (ops' = ops + 1 /\ last'.op = "removePremiumUser")
          => premiumUsers' = premiumUsers \ {last'.userId}
       /\ \A u \in Callers : (Calls(u) /\ ~ActiveBan(u))
          => last'.result.reason \in QuotaDecision(u)]_vars

C19_Witness ==
    /\ LastCallBy("u1")
    /\ last.result.allowed
    /\ "u1" \in premiumUsers
    /\ CountIn(admitted["u1"], last.now, MinuteMs) = 2
    /\ config.userRequestsPerMinute = 1
    /\ clearedAt["u1"] = 0
    /\ clock > 0

(* The step is a sweep. *)
Sweeps == ops' = ops + 1 /\ last'.op = "cleanup"

(* The timestamps of s inside the hour that ends at t, in their order. *)
InTrailingHour(s, t) == SelectSeq(s, LAMBDA x : x > t - HourMs)

\* C20: a sweep at instant now deletes a caller record if and only if, after
\* pruning to the trailing hour, its timestamp sequence is empty and its
\* violation count is exactly 0; every record it keeps has its violation count
\* unchanged and contains no timestamp older than or equal to now - 1 hour.
C20_SweepDeletesEmptyRecords ==
    [][Sweeps =>
        /\ DOMAIN userLimits' \subseteq DOMAIN userLimits
        /\ \A u \in DOMAIN userLimits :
             LET pruned == InTrailingHour(userLimits[u].requests, clock)
             IN /\ u \notin DOMAIN userLimits'
                     <=> (pruned = <<>> /\ userLimits[u].violations = [t |-> 0, e |-> 0])
                /\ u \in DOMAIN userLimits'
                     => /\ userLimits'[u].violations = userLimits[u].violations
                        /\ userLimits'[u].requests = pruned
                        /\ \A x \in Stamps(userLimits'[u].requests) :
                              ~(x <= clock - HourMs)]_vars

C20_Witness ==
    /\ last.op = "cleanup"
    /\ last.sweeps = 1
    /\ last.now = clock
    /\ clock = HourMs
    /\ \E u \in Callers :
          /\ u \in DOMAIN userLimits
          /\ userLimits[u].requests = <<>>
          /\ admitted[u] = <<0>>
          /\ userLimits[u].violations.t > 0

\* C21 (as claimed): after a sweep at instant now no expired ban remains:
\* every ban entry still present is one that checkRateLimit would enforce at
\* that same instant (now < expiry), also at now = expiry.
C21_SweepLeavesNoExpiredBan ==
    (last.op = "cleanup" /\ last.now = clock)
        => \A u \in DOMAIN tempBans : clock < tempBans[u]

\* C22: a checkRateLimit call that returns temp_ban changes no state: the
\* caller's timestamps and violation count, the global record, the premium set
\* and the ban's expiry are all unchanged, so calls made during a ban never
\* extend it.
C22_BanDenialChangesNothing ==
    [][\A u \in Callers :
        (Calls(u) /\ last'.result.reason = "temp_ban")
            => /\ userLimits' = userLimits
               /\ globalLimits' = globalLimits
               /\ premiumUsers' = premiumUsers
               /\ tempBans' = tempBans]_vars

C22_Witness ==
    \E u \in Callers :
        /\ LastCallBy(u)
        /\ last.result.reason = "temp_ban"
        /\ last.now = 1
        /\ last.result.retryAfter = 60 * 1000
        /\ tempBans[u] = config.tempBanDuration
        /\ ViolationsNow(u).t = 30
        /\ RecordStamps(u) = <<0>>

(* The timestamps of s that a check at t keeps: those less than an hour old. *)
LessThanHourOld(s, t) == SelectSeq(s, LAMBDA x : t - x < HourMs)

\* C23: a checkRateLimit call that returns allowed appends exactly one
\* timestamp (now) to the caller's record and exactly one to the global record
\* (each pruned to the trailing hour); a call that returns any denial appends
\* to neither, so denied requests never consume per-caller or global quota.
C23_OnlyAdmissionsAppend ==
    [][\A u \in Callers : Calls(u) =>
        LET callerKept == LessThanHourOld(RecordStamps(u), clock)
            globalKept == LessThanHourOld(GlobalStamps, clock)
        IN /\ last'.result.allowed
                => /\ RecordStamps(u)' = Append(callerKept, clock)
                   /\ GlobalStamps' = Append(globalKept, clock)
           /\ ~last'.result.allowed
                => /\ RecordStamps(u)' \in {RecordStamps(u), callerKept}
                   /\ GlobalStamps' \in {GlobalStamps, globalKept}
                   /\ UserMinute(u)' = UserMinute(u)
                   /\ UserHour(u)' = UserHour(u)
                   /\ GlobalMinute' = GlobalMinute
                   /\ GlobalHour' = GlobalHour
           /\ \A v \in Callers \ {u} : RecordStamps(v)' = RecordStamps(v)]_vars

C23_Witness ==
    \E u \in Callers :
        /\ LastCallBy(u)
        /\ last.result.allowed
        /\ admitted[u] = <<0, HourMs - 1, HourMs>>
        /\ RecordStamps(u) = <<HourMs - 1, HourMs>>
        /\ GlobalStamps = <<HourMs - 1, HourMs>>

(* The timestamps of u's record inside the window that ends at t. *)
StampsIn(u, t, window) == {x \in Stamps(RecordStamps(u)) : x <= t /\ t - x < window}

(* The hint, in thousandths of a second, for a window of w seconds of which
   elapsed milliseconds have passed. *)
HintFor(w, elapsed) ==
    LET seconds == w - (elapsed \div 1000)
    IN 1000 * (IF seconds < 1 THEN 1 ELSE seconds)

\* C24: a minute_limit denial carries retryAfter = max(1, 60 - whole seconds
\* since the caller's most recent request in the trailing minute) and an
\* hour_limit denial carries retryAfter = max(1, 3600 - whole seconds since the
\* caller's oldest request in the trailing hour); these values always lie in
\* [1, 60] and [1, 3600] respectively.
C24_RetryHints ==
    \A u \in Callers :
        /\ (LastCallBy(u) /\ last.result.reason = "minute_limit")
              => LET inMinute == StampsIn(u, last.now, MinuteMs)
                     newest == CHOOSE x \in inMinute : \A y \in inMinute : y <= x
                 IN /\ inMinute # {}
                    /\ last.result.retryAfter = HintFor(60, last.now - newest)
                    /\ last.result.retryAfter \in {1000 * s : s \in 1..60}
        /\ (LastCallBy(u) /\ last.result.reason = "hour_limit")
              => LET inHour == StampsIn(u, last.now, HourMs)
                     oldest == CHOOSE x \in inHour : \A y \in inHour : x <= y
                 IN /\ inHour # {}
                    /\ last.result.retryAfter = HintFor(3600, last.now - oldest)
                    /\ last.result.retryAfter \in {1000 * s : s \in 1..3600}

C24_Witness ==
    \E u \in Callers :
        /\ LastCallBy(u)
        /\ last.result.reason = "hour_limit"
        /\ last.result.retryAfter = 1000
        /\ last.now = HourMs - 1
        /\ RecordStamps(u) = <<0, 0, HourMs - 1>>

(* The step is a checkRateLimit call by u at or after the instant its last
   denial advised, that denial being for a ban or a per-caller quota. *)
RetriesAsAdvised(u) ==
    /\ Calls(u)
    /\ hist[u].denied.reason # "none"
    /\ clock >= hist[u].denied.at + hist[u].denied.retryAfter
    /\ config.tempBanDuration >= MinuteMs

\* C25 (as claimed): after a denial with reason temp_ban, temp_ban_applied,
\* minute_limit or hour_limit carrying retryAfter = r, if the same caller (tier
\* unchanged, no call by that caller in between, ban duration at least 60 s)
\* calls again at or after now + r seconds, that call is not denied with
\* temp_ban, and is not denied with the same per-caller reason as before.
C25_AdvisedDelaySuffices ==
    [][\A u \in Callers :
        (RetriesAsAdvised(u) /\ hist[u].denied.premium = (u \in premiumUsers))
            => /\ last'.result.reason # "temp_ban"
               /\ last'.result.reason # hist[u].denied.reason]_vars

\* C25 (amended): the same, for a denial at which the caller's record held no
\* more requests in the trailing hour than the hour quota of its tier (as it
\* does unless the caller was moved to a tier of lower quota after they were
\* admitted).
C25_AdvisedDelaySufficesWithinQuota ==
    [][\A u \in Callers :
        (/\ RetriesAsAdvised(u)
         /\ hist[u].denied.premium = (u \in premiumUsers)
         /\ ~hist[u].denied.excess)
            => /\ last'.result.reason # "temp_ban"
               /\ last'.result.reason # hist[u].denied.reason]_vars

C25_Witness ==
    \E u \in Callers :
        /\ LastCallBy(u)
        /\ last.result.allowed
        /\ last.now = config.tempBanDuration
        /\ advances = 1
        /\ ops = 6
        /\ hist[u].breaches = 3
        /\ ViolationsNow(u).t = 29
        /\ admitted[u] = <<0, 0, last.now>>
        /\ u \notin DOMAIN tempBans

\* C26 (as claimed): ban expiry does not reset violations, so a standard-tier
\* caller (minute quota <= 10) whose violation count was 3 or more when its
\* ban expired and whose first calls after expiry fill the minute quota within
\* one window is banned again (temp_ban_applied) on the first breach after
\* expiry.
C26_BannedAgainOnFirstBreach ==
    [][\A u \in Callers :
        (/\ Calls(u)
         /\ u \notin premiumUsers
         /\ TierMinuteQuota(u) <= 10
         /\ ~ActiveBan(u)
         /\ hist[u].runFrom >= 30
         /\ hist[u].runLen = TierMinuteQuota(u)
         /\ UserMinute(u) >= TierMinuteQuota(u))
        => last'.result.reason = "temp_ban_applied"]_vars

\* C27: in every reachable state, every caller that has a ban entry (active or
\* expired but not yet removed) also has a caller record whose violation count
\* is >= 3; no operation creates a ban entry for a caller without a record or
\* with fewer than 3 violations.
C27_BanImpliesThreeViolations ==
    \A u \in DOMAIN tempBans :
        /\ u \in DOMAIN userLimits
        /\ AtLeastThree(userLimits[u].violations)

C27_Witness ==
    \E u \in Callers : \E v \in Callers \ {u} :
        /\ u \in DOMAIN tempBans
        /\ clock > tempBans[u]
        /\ AtLeastThree(ViolationsNow(u))
        /\ RecordStamps(u) = <<0>>
        /\ LastCallBy(v)
        /\ last.now = clock
        /\ last.result.allowed

(* Whether u may have called checkRateLimit in the hour that ends now: one
   of its admitted requests lies in it, or its last call, denied for a ban
   or a per-caller quota, does, or its last call was denied by the global
   quota at an instant the history does not hold. *)
CalledInTrailingHour(u) ==
    \/ \E x \in Stamps(admitted[u]) : x > clock - HourMs
    \/ hist[u].denied.reason # "none" /\ hist[u].denied.at > clock - HourMs
    \/ hist[u].denied.reason = "none" /\ hist[u].runLen = 0

(* A sweep has just run at this instant. *)
JustSwept == last.op = "cleanup" /\ last.now = clock

\* C28 (as claimed): every idle caller is evicted: once the timestamps of a
\* caller that makes no further calls have aged past one hour a sweep deletes
\* its record, so after a sweep the caller records held are only those of
\* callers active in the trailing hour.
C28_IdleCallersEvicted ==
    JustSwept => \A u \in DOMAIN userLimits : CalledInTrailingHour(u)

\* C28 (amended): every idle caller with violation count 0 is evicted: once
\* its timestamps have aged past one hour a sweep deletes its record, so after
\* a sweep the caller records held are only those with a timestamp in the
\* trailing hour or a violation count above 0.
C28_IdleCallersWithoutViolationsEvicted ==
    JustSwept =>
        \A u \in DOMAIN userLimits :
            \/ CountIn(RecordStamps(u), clock, HourMs) > 0
            \/ ViolationsNow(u) # [t |-> 0, e |-> 0]

C28_Witness ==
    /\ JustSwept
    /\ clock >= HourMs
    /\ \E u \in Callers : \E v \in Callers \ {u} :
          /\ admitted[u] = <<0>>
          /\ u \notin DOMAIN userLimits
          /\ admitted[v] = <<0>>
          /\ v \in DOMAIN userLimits
          /\ ~CalledInTrailingHour(v)

(* The timestamps of all caller records inside the window that ends at t. *)
RecordedIn(t, window) ==
    SumOver([u \in Callers |-> CountIn(RecordStamps(u), t, window)], Callers)

(* The current instant and the instants the clock can reach next. *)
NowAndLater == {clock} \cup {clock + d : d \in Deltas}

\* C29: in every reachable state and for every instant now, the number of
\* global-record timestamps within the trailing hour (and within the trailing
\* minute) is at least the sum over all caller records of their timestamps
\* within the same window, with equality as long as clearUserLimits has never
\* removed a request; clearUserLimits never lowers the global count, which
\* stays the number of requests admitted in the window, cleared or not.
C29_GlobalCoversCallers ==
    \A t \in NowAndLater : \A window \in {MinuteMs, HourMs} :
        /\ CountIn(GlobalStamps, t, window) >= RecordedIn(t, window)
        /\ (\A u \in Callers : clearedAt[u] = 0)
              => CountIn(GlobalStamps, t, window) = RecordedIn(t, window)
        /\ CountIn(GlobalStamps, t, window) = AdmittedIn(t, window)

C29_Witness ==
    \E u \in Callers :
        /\ clearedAt[u] = 1
        /\ last.op = "checkRateLimit"
        /\ last.result.allowed
        /\ last.now = clock
        /\ CountIn(GlobalStamps, clock, HourMs) = 3
        /\ RecordedIn(clock, HourMs) = 2
        /\ CountIn(GlobalStamps, clock, MinuteMs) = 1
        /\ Len(GlobalStamps) = 3

\* C30 (as claimed): getUserStats(id) is a read-only snapshot consistent with
\* the admission decision: it changes no limiter state, and it reports
\* tempBanned = true exactly when a checkRateLimit call for the same caller at
\* the same instant would be denied with reason temp_ban.
C30_StatsAgreeWithBanCheck ==
    (last.op = "getUserStats" /\ last.now = clock)
        => (last.stats.tempBanned <=> ActiveBan(last.userId))

=============================================================================
